---- MODULE Spec2Model ----
(***************************************************************************)
(* Model of beets/autotag/hooks.py: the Distance penalty accumulator, the  *)
(* string distance, AlbumInfo and TrackInfo, the lazy weight table and     *)
(* the aggregation of metadata sources.                                    *)
(*                                                                         *)
(* Python floats are modelled as exact rationals <<n, d>> in lowest terms  *)
(* (d > 0), plus one NaN value <<0, 0>>; rounding of IEEE doubles is not   *)
(* modelled.  A Python dict is a TLA+ function whose DOMAIN is the set of  *)
(* keys present; a Python list is a sequence.                              *)
(***************************************************************************)
EXTENDS Integers, Sequences, FiniteSets, TLC

\* ------------------------------------------------------------------------
\* Bounds of the model.

\* Total number of penalty values held by all accumulators together.
MaxPenalties == 3
\* The same, in the runs that only compare numbers (SpecNumber).
MaxNumberPenalties == 4
\* Strings compared are made of at most this many of the Words.
MaxWords == 2
\* Each thread reads Distance._weights at most this many times.
MaxAccesses == 2
\* At most this many plugins are registered as metadata sources.
MaxPlugins == 2
\* At most this many TrackInfo objects are created.
MaxTracks == 3

\* ------------------------------------------------------------------------
\* Floats as rationals.

Abs(x) == IF x < 0 THEN -x ELSE x

RECURSIVE GCD(_, _)
GCD(a, b) == IF b = 0 THEN a ELSE GCD(b, a % b)

\* The float n/d (d # 0), in lowest terms with a positive denominator.
Rat(n, d) ==
    LET g == GCD(Abs(n), Abs(d))
        s == IF d < 0 THEN -1 ELSE 1
    IN  <<(s * n) \div g, (s * d) \div g>>

NaN == <<0, 0>>
Zero == <<0, 1>>
One == <<1, 1>>
IsNaN(x) == x[2] = 0

RAdd(x, y) == Rat(x[1] * y[2] + y[1] * x[2], x[2] * y[2])
RSub(x, y) == Rat(x[1] * y[2] - y[1] * x[2], x[2] * y[2])
RMul(x, y) == Rat(x[1] * y[1], x[2] * y[2])
RDiv(x, y) == Rat(x[1] * y[2], x[2] * y[1])
RNeg(x) == <<-x[1], x[2]>>
\* Python's float comparisons: every comparison with NaN is False.
RLe(x, y) == ~IsNaN(x) /\ ~IsNaN(y) /\ x[1] * y[2] <= y[1] * x[2]
RLt(x, y) == ~IsNaN(x) /\ ~IsNaN(y) /\ x[1] * y[2] < y[1] * x[2]
REq(x, y) == ~IsNaN(x) /\ ~IsNaN(y) /\ x = y
\* Truth value of a float (`if dist_max:`).
Truthy(x) == x # Zero
RMax(x, y) == IF RLt(x, y) THEN y ELSE x

Min2(a, b) == IF b < a THEN b ELSE a
Max2(a, b) == IF b > a THEN b ELSE a

\* sum(list) of a list of floats.
RECURSIVE sum(_)
sum(s) == IF s = <<>> THEN Zero ELSE RAdd(s[1], sum(Tail(s)))

\* ------------------------------------------------------------------------
\* The objects of the model.

\* The Distance objects of the run.
D == {"d1", "d2"}
\* Objects that are not Distance instances (arguments of update, ==).
NonDistance == {"int"}

\* Penalty keys used by the callers.
Keys == {"album", "media", "year"}
\* The keys of the runs that use every operation (Spec).
CallKeys == {"album", "year"}
\* Python's str ordering on the keys.
KeyRank == ("album" :> 1) @@ ("media" :> 2) @@ ("year" :> 3)
KeyLt(a, b) == KeyRank[a] < KeyRank[b]

\* config['match']['distance_weights']: the configurations considered.
DefaultWeights ==
    ("album" :> Rat(3, 1)) @@ ("media" :> Rat(1, 1)) @@ ("year" :> Rat(1, 1))
\* The second one has no weight for "media" and a zero weight for "year".
WeightTables ==
    { DefaultWeights, ("album" :> Rat(1, 2)) @@ ("year" :> Rat(0, 1)) }

\* Inputs of add(key, dist).
AddDists == {NaN, Rat(-1, 3), Rat(1, 3), Rat(4, 3)}
\* Inputs of add_number: <<number1, number2>>.
NumberArgs == {<<2000, 2000>>, <<2000, 2001>>, <<2002, 2000>>,
               <<2000, 2003>>, <<2003, 2002>>}
\* Inputs of add_ratio: <<number1, number2>>.
RatioArgs == {<<1, 3>>, <<5, 3>>, <<-1, 3>>, <<1, 0>>, <<1, -3>>}

\* Values and options of add_equality / add_priority.  An option is a
\* literal or a compiled regular expression; a compiled pattern is given
\* by the set of values its match() accepts.
Values == {"CD", "CD-R", "Cassette"}
Lit(v) == [kind |-> "literal", v |-> v]
Re(v) == [kind |-> "Pattern", v |-> v]
PatternMatches == ("CD" :> {"CD", "CD-R"}) @@ ("Vinyl" :> {"Vinyl"})
\* Option arguments: lists (tuples), or one bare option.
OptionArgs ==
    << [list |-> TRUE, opts |-> <<>>],
       [list |-> TRUE, opts |-> <<Lit("CD"), Lit("Vinyl"), Lit("Digital")>>],
       [list |-> TRUE, opts |-> <<Lit("CD"), Lit("Vinyl")>>],
       [list |-> TRUE, opts |-> <<Lit("Vinyl"), Re("CD"), Lit("CD-R")>>],
       [list |-> FALSE, opts |-> Lit("CD")] >>
\* Inputs of add_equality and add_priority: <<value, index in OptionArgs>>.
ValueArgs == {<<"CD", 1>>, <<"CD", 2>>, <<"Cassette", 3>>, <<"CD", 4>>,
              <<"CD-R", 4>>, <<"CD", 5>>, <<"CD-R", 5>>}

\* ------------------------------------------------------------------------
\* Strings are sequences of one-character strings; an Optional[str] is a
\* record that is either None or holds a string.

None == [isNone |-> TRUE, s |-> <<>>]
Str(s) == [isNone |-> FALSE, s |-> s]

\* str.lower() on ASCII letters.
UpperCase ==
    ("A" :> "a") @@ ("B" :> "b") @@ ("C" :> "c") @@ ("D" :> "d") @@
    ("E" :> "e") @@ ("F" :> "f") @@ ("G" :> "g") @@ ("H" :> "h") @@
    ("I" :> "i") @@ ("J" :> "j") @@ ("K" :> "k") @@ ("L" :> "l") @@
    ("M" :> "m") @@ ("N" :> "n") @@ ("O" :> "o") @@ ("P" :> "p") @@
    ("Q" :> "q") @@ ("R" :> "r") @@ ("S" :> "s") @@ ("T" :> "t") @@
    ("U" :> "u") @@ ("V" :> "v") @@ ("W" :> "w") @@ ("X" :> "x") @@
    ("Y" :> "y") @@ ("Z" :> "z")
lower(s) == [i \in 1 .. Len(s) |->
                IF s[i] \in DOMAIN UpperCase THEN UpperCase[s[i]] ELSE s[i]]

\* The class [a-z0-9].
AlphaNumeric ==
    {"a", "b", "c", "d", "e", "f", "g", "h", "i", "j", "k", "l", "m", "n",
     "o", "p", "q", "r", "s", "t", "u", "v", "w", "x", "y", "z",
     "0", "1", "2", "3", "4", "5", "6", "7", "8", "9"}

\* s[i:] and s[:n] of Python, for 1-based i.
From(s, i) == SubSeq(s, i, Len(s))
Upto(s, n) == SubSeq(s, 1, n)
\* s[i:].startswith(w)
StartsAt(s, i, w) ==
    i >= 1 /\ i + Len(w) - 1 <= Len(s) /\ SubSeq(s, i, i + Len(w) - 1) = w
endswith(s, w) == StartsAt(s, Len(s) - Len(w) + 1, w)

\* re.sub(r'[^a-z0-9]', '', s)
RECURSIVE StripNonAlphaNumeric(_)
StripNonAlphaNumeric(s) ==
    IF s = <<>> THEN <<>>
    ELSE (IF s[1] \in AlphaNumeric THEN <<s[1]>> ELSE <<>>)
         \o StripNonAlphaNumeric(Tail(s))

Min3(a, b, c) == IF a <= b /\ a <= c THEN a ELSE IF b <= c THEN b ELSE c

\* One row of the edit-distance table: cur holds the entries of the row of
\* a's character c for the first Len(cur) - 1 characters of b.
RECURSIVE levenshtein_row(_, _, _, _)
levenshtein_row(prev, c, b, cur) ==
    LET j == Len(cur)
    IN  IF j > Len(b) THEN cur
        ELSE levenshtein_row(prev, c, b,
                Append(cur, Min3(prev[j + 1] + 1, cur[j] + 1,
                                 prev[j] + (IF c = b[j] THEN 0 ELSE 1))))

RECURSIVE levenshtein_rows(_, _, _, _)
levenshtein_rows(prev, a, b, i) ==
    IF i > Len(a) THEN prev[Len(b) + 1]
    ELSE levenshtein_rows(levenshtein_row(prev, a[i], b, <<i>>), a, b, i + 1)

\* levenshtein_distance(a, b)
levenshtein_distance(a, b) ==
    levenshtein_rows([j \in 1 .. Len(b) + 1 |-> j - 1], a, b, 1)

\* _string_dist_basic normalized by the length of the shorter string.
string_dist_basic_by_shorter(str1, str2) ==
    LET s1 == StripNonAlphaNumeric(lower(str1))
        s2 == StripNonAlphaNumeric(lower(str2))
    IN  IF s1 = <<>> /\ s2 = <<>> THEN Zero
        ELSE Rat(levenshtein_distance(s1, s2),
                 Max2(1, Min2(Len(s1), Len(s2))))

\* _string_dist_basic; unidecode() and as_string() leave the ASCII strings
\* of the inputs as they are.
string_dist_basic(str1, str2) ==
    LET s1 == StripNonAlphaNumeric(lower(str1))
        s2 == StripNonAlphaNumeric(lower(str2))
    IN  IF s1 = <<>> /\ s2 = <<>> THEN Zero
        ELSE Rat(levenshtein_distance(s1, s2), Max2(Len(s1), Len(s2)))

\* SD_END_WORDS
SD_END_WORDS == << <<"t", "h", "e">>, <<"a">>, <<"a", "n">> >>

\* One string through the SD_END_WORDS loop, from word number i on.
RECURSIVE move_end_words(_, _)
move_end_words(s, i) ==
    IF i > Len(SD_END_WORDS) THEN s
    ELSE LET word == SD_END_WORDS[i]
         IN  move_end_words(
                IF endswith(s, <<",", " ">> \o word)
                THEN word \o <<" ">> \o Upto(s, Len(s) - Len(word) - 2)
                ELSE s,
                i + 1)

\* SD_REPLACE: re.sub(r'&', 'and', s)
RECURSIVE sd_replace(_)
sd_replace(s) ==
    IF s = <<>> THEN <<>>
    ELSE (IF s[1] = "&" THEN <<"a", "n", "d">> ELSE <<s[1]>>)
         \o sd_replace(Tail(s))

\* The six SD_PATTERNS, each as re.sub(pat, '', s).

\* r'^the '
sub_the(s) ==
    IF StartsAt(s, 1, <<"t", "h", "e", " ">>) THEN From(s, 5) ELSE s

\* Length of the match of r'[\[\(]?(ep|single)[\]\)]?' at position i, or 0.
ep_match(s, i) ==
    LET open == IF i <= Len(s) /\ s[i] \in {"[", "("}
                   /\ (StartsAt(s, i + 1, <<"e", "p">>)
                       \/ StartsAt(s, i + 1, <<"s", "i", "n", "g", "l", "e">>))
                THEN 1 ELSE 0
        word == IF StartsAt(s, i + open, <<"e", "p">>) THEN 2
                ELSE IF StartsAt(s, i + open, <<"s", "i", "n", "g", "l", "e">>)
                THEN 6 ELSE 0
        close == IF word # 0 /\ i + open + word <= Len(s)
                    /\ s[i + open + word] \in {"]", ")"}
                 THEN 1 ELSE 0
    IN  IF word = 0 THEN 0 ELSE open + word + close

RECURSIVE sub_ep(_, _)
sub_ep(s, i) ==
    IF i > Len(s) THEN <<>>
    ELSE IF ep_match(s, i) # 0 THEN sub_ep(s, i + ep_match(s, i))
    ELSE <<s[i]>> \o sub_ep(s, i + 1)

\* Does `word[sep].+` match at position i, for a word of words and a
\* separator of seps?
WordRest(s, i, words, seps) ==
    \E w \in words :
        /\ StartsAt(s, i, w)
        /\ i + Len(w) + 1 <= Len(s)
        /\ s[i + Len(w)] \in seps

\* re.sub of a pattern `prefix?(words)[seps].+`, given the positions where
\* it matches: the string is cut at the leftmost match, which runs to its
\* end.
CutAt(s, hits) ==
    IF hits = {} THEN s
    ELSE Upto(s, (CHOOSE i \in hits : \A j \in hits : i <= j) - 1)

\* r'[\[\(]?(featuring|feat|ft)[\. :].+'
sub_feat(s) ==
    LET words == { <<"f", "e", "a", "t", "u", "r", "i", "n", "g">>,
                   <<"f", "e", "a", "t">>, <<"f", "t">> }
        match(i) == \/ WordRest(s, i, words, {".", " ", ":"})
                    \/ s[i] \in {"[", "("}
                       /\ WordRest(s, i + 1, words, {".", " ", ":"})
    IN  CutAt(s, { i \in 1 .. Len(s) : match(i) })

\* Position of the first character c at or after i, or 0.
RECURSIVE find(_, _, _)
find(s, c, i) ==
    IF i > Len(s) THEN 0 ELSE IF s[i] = c THEN i ELSE find(s, c, i + 1)

\* r'\(.*?\)' and r'\[.*?\]': every open ... first close after it.
RECURSIVE sub_bracket(_, _, _, _)
sub_bracket(s, open, close, i) ==
    IF i > Len(s) THEN <<>>
    ELSE IF s[i] = open /\ find(s, close, i + 1) # 0
    THEN sub_bracket(s, open, close, find(s, close, i + 1) + 1)
    ELSE <<s[i]>> \o sub_bracket(s, open, close, i + 1)

\* r'(, )?(pt\.|part) .+'
sub_part(s) ==
    LET words == { <<"p", "t", ".">>, <<"p", "a", "r", "t">> }
        match(i) == \/ WordRest(s, i, words, {" "})
                    \/ StartsAt(s, i, <<",", " ">>)
                       /\ WordRest(s, i + 2, words, {" "})
    IN  CutAt(s, { i \in 1 .. Len(s) : match(i) })

\* SD_PATTERNS: the weight of each pattern, and its deletion.
SD_PATTERNS == << Rat(1, 10), Rat(0, 1), Rat(1, 10), Rat(3, 10), Rat(3, 10),
                  Rat(2, 10) >>
sd_pattern_sub(n, s) ==
    CASE n = 1 -> sub_the(s)
      [] n = 2 -> sub_ep(s, 1)
      [] n = 3 -> sub_feat(s)
      [] n = 4 -> sub_bracket(s, "(", ")", 1)
      [] n = 5 -> sub_bracket(s, "[", "]", 1)
      [] n = 6 -> sub_part(s)

\* The loop over SD_PATTERNS with a baseline distance that is never shifted.
RECURSIVE sd_patterns_loop_keep_base(_, _, _, _, _)
sd_patterns_loop_keep_base(n, str1, str2, base_dist, penalty) ==
    IF n > Len(SD_PATTERNS) THEN RAdd(base_dist, penalty)
    ELSE
      LET case_str1 == sd_pattern_sub(n, str1)
          case_str2 == sd_pattern_sub(n, str2)
          case_dist == string_dist_basic(case_str1, case_str2)
          case_delta == RMax(Zero, RSub(base_dist, case_dist))
      IN  IF (case_str1 # str1 \/ case_str2 # str2) /\ case_delta # Zero
          THEN sd_patterns_loop_keep_base(
                  n + 1, case_str1, case_str2, base_dist,
                  RAdd(penalty, RMul(SD_PATTERNS[n], case_delta)))
          ELSE sd_patterns_loop_keep_base(n + 1, str1, str2, base_dist,
                                          penalty)

\* The loop over SD_PATTERNS, from pattern number n on.
RECURSIVE sd_patterns_loop(_, _, _, _, _)
sd_patterns_loop(n, str1, str2, base_dist, penalty) ==
    IF n > Len(SD_PATTERNS) THEN RAdd(base_dist, penalty)
    ELSE
      LET case_str1 == sd_pattern_sub(n, str1)
          case_str2 == sd_pattern_sub(n, str2)
          case_dist == string_dist_basic(case_str1, case_str2)
          case_delta == RMax(Zero, RSub(base_dist, case_dist))
      IN  IF (case_str1 # str1 \/ case_str2 # str2) /\ case_delta # Zero
          THEN sd_patterns_loop(n + 1, case_str1, case_str2, case_dist,
                                RAdd(penalty, RMul(SD_PATTERNS[n], case_delta)))
          ELSE sd_patterns_loop(n + 1, str1, str2, base_dist, penalty)

\* string_dist
string_dist(str1, str2) ==
    IF str1.isNone /\ str2.isNone THEN Zero
    ELSE IF str1.isNone \/ str2.isNone THEN One
    ELSE LET s1 == sd_replace(move_end_words(lower(str1.s), 1))
             s2 == sd_replace(move_end_words(lower(str2.s), 1))
         IN  sd_patterns_loop(1, s1, s2, string_dist_basic(s1, s2), Zero)

\* Inputs of add_string: <<str1, str2>>.
StringArgs ==
    { <<None, None>>,
      <<None, Str(<<"a", "b", "c">>)>>,
      <<Str(<<"a", "b", "c">>), Str(<<"a", "b", "d">>)>>,
      <<Str(<<"T", "h", "e", " ", "A">>), Str(<<"A", ",", " ", "T", "h", "e">>)>>,
      <<Str(<<"a", "b", " ", "E", "P">>), Str(<<"a", "b">>)>> }

\* string_dist on the inputs of add_string, evaluated once.
string_dist_of == [a \in StringArgs |-> string_dist(a[1], a[2])]

\* Pieces of titles: plain words, an ampersand, an article at either end
\* and a parenthetical remark.
Words ==
    { <<"a", "b">>,
      <<"a">>,
      <<"&", "b">>,
      <<",", " ", "t", "h", "e">>,
      <<"T", "h", "e", " ">>,
      <<" ", "(", "x", ")">> }

\* The strings made of at most n of the Words.
RECURSIVE Concats(_)
Concats(n) ==
    IF n = 0 THEN { <<>> }
    ELSE LET shorter == Concats(n - 1)
         IN  shorter \cup { s \o w : s \in shorter, w \in Words }

\* The Optional[str] values string_dist is called with.
Strings == { None } \cup { Str(s) : s \in Concats(MaxWords) }

\* Inputs of string_dist: <<str1, str2>>, one of them of at most one word.
StringPairs ==
    LET short == { None } \cup { Str(s) : s \in Concats(1) }
    IN  (Strings \X short) \cup (short \X Strings)

VARIABLES
    penalties,   \* penalties[d]: the dict d._penalties
    config,      \* config['match']['distance_weights']
    last,        \* the name of the operation performed last
    raised,      \* the exception the last operation raised, or "none"
    sd,          \* a call of string_dist: its arguments and its result
    computed,    \* LazyClassProperty.computed of Distance._weights
    value,       \* LazyClassProperty.value of Distance._weights
    getter_calls,\* how many times the getter of Distance._weights has run
    threads,     \* threads[t]: thread t's position in __get__, the table
                 \* its getter call returned, the table __get__ returned
                 \* last, and the number of its accesses
    heap,        \* the AlbumInfo, list and TrackInfo objects, by identity
    run          \* one call of an aggregation function: the generator's
                 \* position, the candidates it has in hand, the events
                 \* sent and candidates yielded so far, in order, and what
                 \* each source queried so far returned

lazyVars == <<computed, value, getter_calls, threads>>

\* The variables the Distance methods leave alone.
others == <<sd, lazyVars, heap, run>>

vars == <<penalties, config, last, raised, others>>

\* ------------------------------------------------------------------------
\* LazyClassProperty and Distance._weights.

\* The getter: copies the configured table.
Distance_weights_getter(cfg) == [key \in DOMAIN cfg |-> cfg[key]]

\* The table Distance._weights holds.
Distance_weights == Distance_weights_getter(config)

\* ------------------------------------------------------------------------
\* Distance: adding components (pure operators on one _penalties dict).

\* Distance.__init__
Distance_init == <<>>

\* self._penalties.setdefault(key, []).extend(vs)
setdefault_extend(p, key, vs) ==
    IF key \in DOMAIN p
    THEN [p EXCEPT ![key] = @ \o vs]
    ELSE p @@ (key :> vs)

\* Distance.add without its range check.
Distance_add_unchecked(p, key, dist) ==
    [pen |-> setdefault_extend(p, key, <<dist>>), exc |-> "none"]

\* Distance.add with the key's list created before the range check.
Distance_add_setdefault_first(p, key, dist) ==
    IF ~(RLe(Zero, dist) /\ RLe(dist, One))
    THEN [pen |-> setdefault_extend(p, key, <<>>), exc |-> "ValueError"]
    ELSE [pen |-> setdefault_extend(p, key, <<dist>>), exc |-> "none"]

\* Distance.add: the dict afterwards and the exception raised.
Distance_add(p, key, dist) ==
    IF ~(RLe(Zero, dist) /\ RLe(dist, One))
    THEN [pen |-> p, exc |-> "ValueError"]
    ELSE [pen |-> setdefault_extend(p, key, <<dist>>), exc |-> "none"]

\* Distance._eq
Distance_eq_option(value1, value2) ==
    IF value1.kind = "Pattern"
    THEN value2 \in PatternMatches[value1.v]
    ELSE value1.v = value2

\* `if not isinstance(options, (list, tuple)): options = [options]`
AsList(options) == IF options.list THEN options.opts ELSE <<options.opts>>

\* Index of the first option the for loop breaks on, 0 when it runs to
\* its else clause.
FirstMatch(opts, val) ==
    IF \E i \in 1 .. Len(opts) : Distance_eq_option(opts[i], val)
    THEN CHOOSE i \in 1 .. Len(opts) :
            /\ Distance_eq_option(opts[i], val)
            /\ \A j \in 1 .. i - 1 : ~Distance_eq_option(opts[j], val)
    ELSE 0

\* Distance.add_equality
Distance_add_equality(p, key, val, options) ==
    LET opts == AsList(options)
        dist == IF FirstMatch(opts, val) # 0 THEN Zero ELSE One
    IN  Distance_add(p, key, dist)

\* Distance.add_expr
Distance_add_expr(p, key, expr) ==
    IF expr THEN Distance_add(p, key, One) ELSE Distance_add(p, key, Zero)

\* `for i in range(diff): self.add(key, 1.0)`
RECURSIVE add_number_loop(_, _, _)
add_number_loop(r, key, n) ==
    IF n = 0 \/ r.exc # "none" THEN r
    ELSE add_number_loop(Distance_add(r.pen, key, One), key, n - 1)

\* Distance.add_number adding one penalty whatever the difference.
Distance_add_number_once(p, key, number1, number2) ==
    LET diff == Abs(number1 - number2)
    IN  IF diff # 0
        THEN Distance_add(p, key, One)
        ELSE Distance_add(p, key, Zero)

\* Distance.add_number
Distance_add_number(p, key, number1, number2) ==
    LET diff == Abs(number1 - number2)
    IN  IF diff # 0
        THEN add_number_loop([pen |-> p, exc |-> "none"], key, diff)
        ELSE Distance_add(p, key, Zero)

\* Distance.add_priority counting the options from 1.
Distance_add_priority_from_one(p, key, val, options) ==
    LET opts == AsList(options)
        len == IF Len(opts) # 0 THEN Len(opts) ELSE 1
        unit == RDiv(One, Rat(len, 1))
        i == FirstMatch(opts, val)
        dist == IF i # 0 THEN RMul(Rat(i, 1), unit) ELSE One
    IN  Distance_add(p, key, dist)

\* Distance.add_priority
Distance_add_priority(p, key, val, options) ==
    LET opts == AsList(options)
        len == IF Len(opts) # 0 THEN Len(opts) ELSE 1
        unit == RDiv(One, Rat(len, 1))
        i == FirstMatch(opts, val)
        dist == IF i # 0 THEN RMul(Rat(i - 1, 1), unit) ELSE One
    IN  Distance_add(p, key, dist)

\* Distance.add_ratio
Distance_add_ratio(p, key, number1, number2) ==
    LET number == Rat(Max2(Min2(number1, number2), 0), 1)
        dist == IF number2 # 0 THEN RDiv(number, Rat(number2, 1)) ELSE Zero
    IN  Distance_add(p, key, dist)

\* Distance.add_string
Distance_add_string(p, key, str1, str2) ==
    LET dist == IF <<str1, str2>> \in StringArgs
                THEN string_dist_of[<<str1, str2>>]
                ELSE string_dist(str1, str2)
    IN  Distance_add(p, key, dist)

\* The loop of Distance.update: every key of dist, in turn.
RECURSIVE update_loop(_, _, _)
update_loop(p, q, ks) ==
    IF ks = {} THEN p
    ELSE LET key == CHOOSE k \in ks : TRUE
         IN  update_loop(setdefault_extend(p, key, q[key]), q, ks \ {key})

\* Distance.update replacing the lists of self, as dict.update would.
Distance_update_replace(p, isDistance, q) ==
    IF ~isDistance
    THEN [pen |-> p, exc |-> "ValueError"]
    ELSE [pen |-> q @@ p, exc |-> "none"]

\* Distance.update, given whether dist is a Distance and its dict.
Distance_update(p, isDistance, q) ==
    IF ~isDistance
    THEN [pen |-> p, exc |-> "ValueError"]
    ELSE [pen |-> update_loop(p, q, DOMAIN q), exc |-> "none"]

\* ------------------------------------------------------------------------
\* Distance: the components and their aggregates (w is Distance._weights).

\* `self._weights[key]` raises KeyError for a key without a weight.
RaisesKeyError(p, w) == \E key \in DOMAIN p : key \notin DOMAIN w

\* Distance.max_distance
RECURSIVE max_distance_loop(_, _, _)
max_distance_loop(p, w, ks) ==
    IF ks = {} THEN Zero
    ELSE LET key == CHOOSE k \in ks : TRUE
         IN  RAdd(RMul(Rat(Len(p[key]), 1), w[key]),
                  max_distance_loop(p, w, ks \ {key}))

\* Distance.max_distance without the weights.
RECURSIVE max_distance_unweighted_loop(_, _)
max_distance_unweighted_loop(p, ks) ==
    IF ks = {} THEN Zero
    ELSE LET key == CHOOSE k \in ks : TRUE
         IN  RAdd(Rat(Len(p[key]), 1),
                  max_distance_unweighted_loop(p, ks \ {key}))

Distance_max_distance_unweighted(p, w) ==
    max_distance_unweighted_loop(p, DOMAIN p)

Distance_max_distance(p, w) == max_distance_loop(p, w, DOMAIN p)

\* Distance.raw_distance
RECURSIVE raw_distance_loop(_, _, _)
raw_distance_loop(p, w, ks) ==
    IF ks = {} THEN Zero
    ELSE LET key == CHOOSE k \in ks : TRUE
         IN  RAdd(RMul(sum(p[key]), w[key]),
                  raw_distance_loop(p, w, ks \ {key}))

\* Distance.raw_distance without the weights.
RECURSIVE raw_distance_unweighted_loop(_, _)
raw_distance_unweighted_loop(p, ks) ==
    IF ks = {} THEN Zero
    ELSE LET key == CHOOSE k \in ks : TRUE
         IN  RAdd(sum(p[key]), raw_distance_unweighted_loop(p, ks \ {key}))

Distance_raw_distance_unweighted(p, w) ==
    raw_distance_unweighted_loop(p, DOMAIN p)

\* Distance.raw_distance
Distance_raw_distance(p, w) == raw_distance_loop(p, w, DOMAIN p)

\* Distance.distance without the normalization.
Distance_distance_raw(p, w) == Distance_raw_distance(p, w)

\* Distance.distance
Distance_distance(p, w) ==
    LET dist_max == Distance_max_distance(p, w)
    IN  IF Truthy(dist_max)
        THEN RDiv(Distance_raw_distance(p, w), Distance_max_distance(p, w))
        ELSE Zero

\* Distance.__getitem__ normalized by the key's own maximum.
Distance_getitem_own_max(p, w, key) ==
    LET dist == RMul(sum(p[key]), w[key])
        dist_max == RMul(Rat(Len(p[key]), 1), w[key])
    IN  IF Truthy(dist_max) THEN RDiv(dist, dist_max) ELSE Zero

\* Distance.__getitem__
Distance_getitem(p, w, key) ==
    LET dist == RMul(sum(p[key]), w[key])
        dist_max == Distance_max_distance(p, w)
    IN  IF Truthy(dist_max) THEN RDiv(dist, dist_max) ELSE Zero

\* The sort key (-dist, key) with the keys compared the other way round.
ItemLt_keys_descending(a, b) ==
    \/ RLt(RNeg(a[2]), RNeg(b[2]))
    \/ RNeg(a[2]) = RNeg(b[2]) /\ KeyLt(b[1], a[1])

\* The sort key of Distance.items: (-dist, key), compared as tuples.
ItemLt(a, b) ==
    \/ RLt(RNeg(a[2]), RNeg(b[2]))
    \/ RNeg(a[2]) = RNeg(b[2]) /\ KeyLt(a[1], b[1])

\* sorted(list_, key=...), list_ given as the set of its (distinct) pairs.
RECURSIVE sorted(_)
sorted(S) ==
    IF S = {} THEN <<>>
    ELSE LET m == CHOOSE x \in S : \A y \in S \ {x} : ItemLt(x, y)
         IN  <<m>> \o sorted(S \ {m})

\* Distance.items
Distance_items(p, w) ==
    LET list_ == { <<key, Distance_getitem(p, w, key)>> :
                     key \in { k \in DOMAIN p :
                                 Truthy(Distance_getitem(p, w, k)) } }
    IN  sorted(list_)

\* Distance.__eq__ comparing two accumulators by identity.
Distance_eq_identity(p, w, other) ==
    IF other.type = "float" THEN REq(Distance_distance(p, w), other.v)
    ELSE FALSE

\* Distance.__eq__(self, other) is `self.distance == other`.  The float on
\* the left knows how to compare with a number; for any other object
\* float.__eq__ returns NotImplemented and Python evaluates the reflected
\* other.__eq__(self.distance) when other defines one (a Distance does),
\* and falls back to identity, which is False, when it does not.
\* An operand is [type |-> "float", v |-> x], [type |-> "Distance",
\* pen |-> its dict], or [type |-> "object"].
Distance_eq(p, w, other) ==
    LET self_distance == Distance_distance(p, w)
    IN  IF other.type = "float" THEN REq(self_distance, other.v)
        ELSE IF other.type = "Distance"
        THEN REq(Distance_distance(other.pen, w), self_distance)
        ELSE FALSE

\* Distance.__lt__
Distance_lt(p, w, other) == RLt(Distance_distance(p, w), other)

\* ------------------------------------------------------------------------
\* The state machine.

\* Number of penalty values held by all accumulators.
RECURSIVE DictSize(_, _)
DictSize(p, ks) ==
    IF ks = {} THEN 0
    ELSE LET key == CHOOSE k \in ks : TRUE
         IN  Len(p[key]) + DictSize(p, ks \ {key})

RECURSIVE HeapSize(_, _)
HeapSize(pens, ds) ==
    IF ds = {} THEN 0
    ELSE LET d == CHOOSE x \in ds : TRUE
         IN  DictSize(pens[d], DOMAIN pens[d]) + HeapSize(pens, ds \ {d})

\* No call of string_dist is under way.
NoStringDist == sd = [str1 |-> None, str2 |-> None, result |-> "none"]

\* The threads that read Distance._weights.
Threads == {"t1", "t2", "t3"}

\* Distance._weights has not been read.
NotComputed ==
    /\ computed = FALSE
    /\ value = "unset"
    /\ getter_calls = 0
    /\ threads = [t \in Threads |->
                    [pc |-> "ready", result |-> "none", returned |-> "none",
                     accesses |-> 0]]

\* ------------------------------------------------------------------------
\* AlbumInfo and TrackInfo.  Objects are numbered in the order of their
\* creation: heap.albums[a] is the dict of AlbumInfo a, whose "tracks" entry
\* refers to a list object; heap.lists[l] is the list object l, a sequence
\* of references to TrackInfo objects; heap.tracks[t] is the dict of
\* TrackInfo t.  heap.copy_of[a] is the album a was copied from, or 0.

\* Values of the fields "album" and "title".
Titles == {"x", "y"}

NoObjects ==
    [albums |-> <<>>, lists |-> <<>>, tracks |-> <<>>, copy_of |-> <<>>]

\* The references n + 1 .. n + k, as a list.
Fresh(n, k) == [i \in 1 .. k |-> n + i]

\* AlbumInfo([TrackInfo(title=t) for t in titles], album=album)
AlbumInfo_init(h, titles, album) ==
    [albums |-> Append(h.albums, [album |-> album,
                                  tracks |-> Len(h.lists) + 1]),
     lists |-> Append(h.lists, Fresh(Len(h.tracks), Len(titles))),
     tracks |-> h.tracks \o [i \in 1 .. Len(titles) |->
                                [title |-> titles[i]]],
     copy_of |-> Append(h.copy_of, 0)]

\* TrackInfo.copy of every track of the list l: the new dicts, in order.
TrackInfo_copy(h, t) == [title |-> h.tracks[t].title]
copied_tracks(h, l) ==
    [i \in 1 .. Len(h.lists[l]) |-> TrackInfo_copy(h, h.lists[l][i])]

\* AlbumInfo.copy with dupe.tracks = list(self.tracks).
AlbumInfo_copy_shared_tracks(h, a) ==
    [albums |-> Append(h.albums, [h.albums[a] EXCEPT
                                     !.tracks = Len(h.lists) + 1]),
     lists |-> Append(h.lists, h.lists[h.albums[a].tracks]),
     tracks |-> h.tracks,
     copy_of |-> Append(h.copy_of, a)]

\* AlbumInfo.copy: dupe.update(self) copies every entry of the dict, and
\* dupe.tracks is then bound to a new list of copies of the tracks.
AlbumInfo_copy(h, a) ==
    LET l == h.albums[a].tracks
    IN  [albums |-> Append(h.albums, [h.albums[a] EXCEPT
                                         !.tracks = Len(h.lists) + 1]),
         lists |-> Append(h.lists, Fresh(Len(h.tracks), Len(h.lists[l]))),
         tracks |-> h.tracks \o copied_tracks(h, l),
         copy_of |-> Append(h.copy_of, a)]

\* The sequence s without its element number i.
Without(s, i) == [j \in 1 .. Len(s) - 1 |-> IF j < i THEN s[j] ELSE s[j + 1]]

\* What album a shows: its title and the titles of its tracks.
AlbumView(h, a) ==
    LET l == h.lists[h.albums[a].tracks]
    IN  [album |-> h.albums[a].album,
         tracks |-> [i \in 1 .. Len(l) |-> h.tracks[l[i]].title]]

\* ------------------------------------------------------------------------
\* Aggregation of sources.

\* What a call returns or raises.
Returns(v) == [exc |-> "none", value |-> v]
Raises(e) == [exc |-> e, value |-> <<>>]

\* The value None of an Optional[AlbumInfo] or Optional[TrackInfo].
NoInfo == "None"

\* What a call for one record raises.
Fails(e) == [exc |-> e, value |-> NoInfo]

\* mb.match_album and mb.match_track: the candidates found, or the
\* ServiceError of the primary service.
SearchOutcomes ==
    { Raises("MusicBrainzAPIError"), Returns(<<>>), Returns(<<"m1", "m2">>) }

\* mb.album_for_id and mb.track_for_id: the record, None, or the
\* ServiceError of the primary service.
LookupOutcomes ==
    { Fails("MusicBrainzAPIError"), Returns(NoInfo), Returns("m1") }

\* The candidates one registered plugin contributes to a search, or its
\* failure.
PluginOutcomes ==
    { Raises("PluginError"), Returns(<<>>), Returns(<<"p1", "p2">>) }

\* The match one registered plugin has for an ID, None, or its failure.
PluginLookupOutcomes ==
    { Fails("PluginError"), Returns(NoInfo), Returns("p1"), Returns("p2") }

\* Entries of the log: plugins.send(event, info=info), and a candidate
\* handed to the caller.
Sent(event, info) == [kind |-> "send", event |-> event, info |-> info]
Yielded(info) == [kind |-> "yield", event |-> "none", info |-> info]

\* The event an aggregation function announces its candidates with.
EventOf(func) ==
    IF func \in {"album_candidates", "albums_for_id"}
    THEN "albuminfo_received" ELSE "trackinfo_received"

\* What a source returned: a history entry.
Queried(source, outcome, cands) ==
    [source |-> source, exc |-> outcome.exc, cands |-> cands]

\* No aggregation call is under way.
NoRun ==
    [func |-> "none", enabled |-> FALSE, artist |-> "", album |-> "",
     va_likely |-> FALSE, registered |-> 0, pc |-> "idle", plugin |-> 1,
     buffer |-> <<>>, log |-> <<>>, error |-> "none", history |-> <<>>]

\* The exception exc leaves the generator r.
Propagates(r, exc) == [r EXCEPT !.error = exc, !.pc = "raised"]

\* invoke_mb without the except clause.
invoke_mb_uncaught(outcome) == outcome

\* invoke_mb: the result of call_func(*args), () when it raises
\* MusicBrainzAPIError.
invoke_mb(outcome) ==
    IF outcome.exc = "MusicBrainzAPIError" THEN Returns(<<>>) ELSE outcome

\* `if cond: yield from invoke_mb(...)`, then on to the position next.
yield_from_invoke_mb(r, cond, next, outcome) ==
    IF ~cond THEN [r EXCEPT !.pc = next]
    ELSE LET res == invoke_mb(outcome)
             h == Append(r.history, Queried("primary", outcome, res.value))
         IN  IF res.exc # "none"
             THEN Propagates([r EXCEPT !.history = h], res.exc)
             ELSE [r EXCEPT !.buffer = res.value, !.pc = next, !.history = h]

\* `yield from plugins.candidates(...)`: the candidates of the next
\* registered plugin; what a plugin raises leaves the generator.
yield_from_plugins(r, outcome) ==
    LET h == Append(r.history, Queried("plugin", outcome, outcome.value))
    IN  IF outcome.exc # "none"
        THEN Propagates([r EXCEPT !.history = h], outcome.exc)
        ELSE [r EXCEPT !.buffer = outcome.value, !.plugin = @ + 1,
                       !.history = h]

\* album_candidates, from its position r.pc to its next lookup.
album_candidates(r, outcome) ==
    CASE r.pc = "search1" ->
           yield_from_invoke_mb(
               r, r.enabled /\ r.artist # "" /\ r.album # "", "search2",
               outcome)
      [] r.pc = "search2" ->
           yield_from_invoke_mb(
               r, r.enabled /\ r.va_likely /\ r.album # "", "plugins",
               outcome)
      [] r.pc = "plugins" -> yield_from_plugins(r, outcome)

\* item_candidates (r.album is the title), likewise.
item_candidates(r, outcome) ==
    CASE r.pc = "search1" ->
           yield_from_invoke_mb(
               r, r.enabled /\ r.artist # "" /\ r.album # "", "plugins",
               outcome)
      [] r.pc = "plugins" -> yield_from_plugins(r, outcome)

\* plugins.notify_info_yielded(event): the decorated generator sends the
\* event for the candidate it got and then yields the candidate.
notify_info_yielded(r) ==
    [r EXCEPT !.log = @ \o << Sent(EventOf(r.func), Head(r.buffer)),
                              Yielded(Head(r.buffer)) >>,
              !.buffer = Tail(@)]

\* album_for_mbid and track_for_mbid without the except clause.
album_for_mbid_uncaught(outcome, event) ==
    [exc |-> outcome.exc,
     value |-> IF outcome.exc = "none" THEN outcome.value ELSE NoInfo,
     sent |-> IF outcome.exc = "none" /\ outcome.value # NoInfo
              THEN << Sent(event, outcome.value) >> ELSE <<>>]

\* album_for_mbid and track_for_mbid: the record found, announced by an
\* event; None when there is none or the lookup raises
\* MusicBrainzAPIError.
album_for_mbid(outcome, event) ==
    IF outcome.exc = "MusicBrainzAPIError"
    THEN [exc |-> "none", value |-> NoInfo, sent |-> <<>>]
    ELSE [exc |-> outcome.exc,
          value |-> IF outcome.exc = "none" THEN outcome.value ELSE NoInfo,
          sent |-> IF outcome.exc = "none" /\ outcome.value # NoInfo
                   THEN << Sent(event, outcome.value) >> ELSE <<>>]

\* albums_for_id and tracks_for_id yielding the plugins' matches without
\* sending the event.
albums_for_id_silent(r, outcome) ==
    IF r.pc = "lookup"
    THEN LET a == album_for_mbid(outcome, EventOf(r.func))
             found == IF a.value # NoInfo THEN <<a.value>> ELSE <<>>
             h == Append(r.history, Queried("primary", outcome, found))
         IN  IF a.exc # "none"
             THEN Propagates([r EXCEPT !.history = h], a.exc)
             ELSE [r EXCEPT !.log = @ \o a.sent, !.buffer = found,
                            !.pc = "plugins", !.history = h]
    ELSE LET found == IF outcome.exc = "none" /\ outcome.value # NoInfo
                      THEN <<outcome.value>> ELSE <<>>
             h == Append(r.history, Queried("plugin", outcome, found))
         IN  IF outcome.exc # "none"
             THEN Propagates([r EXCEPT !.history = h], outcome.exc)
             ELSE [r EXCEPT !.buffer = found, !.plugin = @ + 1,
                            !.history = h]

\* albums_for_id and tracks_for_id, from the position r.pc to the next
\* yield: first album_for_mbid, then the match of each plugin in turn, each
\* announced by an event when it is not None.
albums_for_id(r, outcome) ==
    IF r.pc = "lookup"
    THEN LET a == album_for_mbid(outcome, EventOf(r.func))
             found == IF a.value # NoInfo THEN <<a.value>> ELSE <<>>
             h == Append(r.history, Queried("primary", outcome, found))
         IN  IF a.exc # "none"
             THEN Propagates([r EXCEPT !.history = h], a.exc)
             ELSE [r EXCEPT !.log = @ \o a.sent, !.buffer = found,
                            !.pc = "plugins", !.history = h]
    ELSE LET found == IF outcome.exc = "none" /\ outcome.value # NoInfo
                      THEN <<outcome.value>> ELSE <<>>
             h == Append(r.history, Queried("plugin", outcome, found))
         IN  IF outcome.exc # "none"
             THEN Propagates([r EXCEPT !.history = h], outcome.exc)
             ELSE [r EXCEPT
                     !.log = @ \o [i \in 1 .. Len(found) |->
                                     Sent(EventOf(r.func), found[i])],
                     !.buffer = found, !.plugin = @ + 1, !.history = h]

\* `yield a` in albums_for_id and tracks_for_id.
yield_for_id(r) ==
    [r EXCEPT !.log = Append(@, Yielded(Head(r.buffer))), !.buffer = Tail(@)]

\* The generator is exhausted.
StopIteration(r) ==
    r.pc = "plugins" /\ r.plugin > r.registered /\ r.buffer = <<>>

\* Nothing but the accumulators is in use.
Idle == NoStringDist /\ NotComputed /\ heap = NoObjects /\ run = NoRun

\* Fresh accumulators under the default configuration.
Init ==
    /\ penalties = [d \in D |-> Distance_init]
    /\ config = DefaultWeights
    /\ last = "init"
    /\ raised = "none"
    /\ Idle

\* Fresh accumulators under any of the configurations.
InitAnyWeights ==
    /\ penalties = [d \in D |-> Distance_init]
    /\ config \in WeightTables
    /\ last = "init"
    /\ raised = "none"
    /\ Idle

\* The effect of a call on d with outcome r, in a run that holds at most
\* bound penalty values.
Call(d, r, bound) ==
    /\ \/ r.pen = Distance_init
       \/ HeapSize([penalties EXCEPT ![d] = r.pen], D) <= bound
    /\ penalties' = [penalties EXCEPT ![d] = r.pen]
    /\ raised' = r.exc
    /\ UNCHANGED <<config, others>>

\* d = Distance()
New(d) ==
    /\ last' = "new"
    /\ Call(d, [pen |-> Distance_init, exc |-> "none"], 0)

add(d, key, dist) ==
    /\ last' = "add"
    /\ Call(d, Distance_add(penalties[d], key, dist), MaxPenalties)

add_equality(d, key, val, o) ==
    /\ last' = "add_equality"
    /\ Call(d, Distance_add_equality(penalties[d], key, val, OptionArgs[o]),
            MaxPenalties)

add_expr(d, key, expr) ==
    /\ last' = "add_expr"
    /\ Call(d, Distance_add_expr(penalties[d], key, expr), MaxPenalties)

add_number(d, key, number1, number2, bound) ==
    /\ last' = "add_number"
    /\ Call(d, Distance_add_number(penalties[d], key, number1, number2),
            bound)

add_priority(d, key, val, o) ==
    /\ last' = "add_priority"
    /\ Call(d, Distance_add_priority(penalties[d], key, val, OptionArgs[o]),
            MaxPenalties)

add_ratio(d, key, number1, number2) ==
    /\ last' = "add_ratio"
    /\ Call(d, Distance_add_ratio(penalties[d], key, number1, number2),
            MaxPenalties)

add_string(d, key, str1, str2) ==
    /\ last' = "add_string"
    /\ Call(d, Distance_add_string(penalties[d], key, str1, str2),
            MaxPenalties)

update(d, dist) ==
    /\ last' = "update"
    /\ Call(d, Distance_update(penalties[d], dist \in D,
                               IF dist \in D THEN penalties[dist] ELSE <<>>),
            MaxPenalties)

\* Reading d.distance: raises KeyError when a key of d has no weight.
distance(d) ==
    /\ last' = "distance"
    /\ raised' = IF RaisesKeyError(penalties[d], Distance_weights)
                 THEN "KeyError" ELSE "none"
    /\ UNCHANGED <<penalties, config, others>>

\* Runs that use every operation.
Next ==
    \/ \E d \in D : New(d)
    \/ \E d \in D, key \in CallKeys, dist \in AddDists : add(d, key, dist)
    \/ \E d \in D, key \in CallKeys, a \in ValueArgs :
          add_equality(d, key, a[1], a[2])
    \/ \E d \in D, key \in CallKeys, expr \in BOOLEAN : add_expr(d, key, expr)
    \/ \E d \in D, key \in CallKeys, a \in NumberArgs :
          add_number(d, key, a[1], a[2], MaxPenalties)
    \/ \E d \in D, key \in CallKeys, a \in ValueArgs :
          add_priority(d, key, a[1], a[2])
    \/ \E d \in D, key \in CallKeys, a \in RatioArgs :
          add_ratio(d, key, a[1], a[2])
    \/ \E d \in D, key \in CallKeys, a \in StringArgs :
          add_string(d, key, a[1], a[2])
    \/ \E d \in D, dist \in D \cup NonDistance : update(d, dist)
    \/ \E d \in D : distance(d)

Spec == Init /\ [][Next]_vars

\* Runs that fill accumulators over all keys and read them.
NextRead ==
    \/ \E d \in D : New(d)
    \/ \E d \in D, key \in Keys, dist \in AddDists \cup {Zero, One} :
          add(d, key, dist)
    \/ \E d \in D, dist \in D : update(d, dist)
    \/ \E d \in D : distance(d)

SpecRead == InitAnyWeights /\ [][NextRead]_vars

\* Runs that compare numbers.
NextNumber ==
    \/ \E d \in D : New(d)
    \/ \E d \in D, key \in Keys, a \in NumberArgs :
          add_number(d, key, a[1], a[2], MaxNumberPenalties)
    \/ \E d \in D : distance(d)

SpecNumber == InitAnyWeights /\ [][NextNumber]_vars

\* ------------------------------------------------------------------------
\* Calls of string_dist on two optional strings, and of add_string with
\* the same two strings.

InitString ==
    /\ penalties = [d \in D |-> Distance_init]
    /\ config = DefaultWeights
    /\ last = "init"
    /\ raised = "none"
    /\ \E a \in StringPairs :
          sd = [str1 |-> a[1], str2 |-> a[2], result |-> "none"]
    /\ NotComputed
    /\ heap = NoObjects
    /\ run = NoRun

\* result = string_dist(str1, str2)
string_dist_call ==
    /\ sd.result = "none"
    /\ sd' = [sd EXCEPT !.result = string_dist(sd.str1, sd.str2)]
    /\ last' = "string_dist"
    /\ raised' = "none"
    /\ UNCHANGED <<penalties, config, lazyVars, heap, run>>

NextString ==
    \/ string_dist_call
    \/ add_string("d1", "album", sd.str1, sd.str2)

SpecString == InitString /\ [][NextString]_vars

\* ------------------------------------------------------------------------
\* LazyClassProperty.__get__ for Distance._weights, read by several threads.
\* A thread can be preempted between any two of: the test of self.computed,
\* the call of the getter, the store to self.value, the store to
\* self.computed and the load of self.value.

InitLazy ==
    /\ penalties = [d \in D |-> Distance_init]
    /\ config \in WeightTables
    /\ last = "init"
    /\ raised = "none"
    /\ NoStringDist
    /\ NotComputed
    /\ heap = NoObjects
    /\ run = NoRun

\* Thread t, at position pc of __get__, takes its next step.
Step(t, pc) ==
    /\ threads[t].pc = pc
    /\ last' = "__get__"
    /\ UNCHANGED <<penalties, config, raised, sd, heap, run>>

\* t reads Distance._weights: __get__ is entered.
get_enter(t) ==
    /\ Step(t, "ready")
    /\ threads[t].accesses < MaxAccesses
    /\ threads' = [threads EXCEPT ![t].pc = "test",
                                  ![t].accesses = @ + 1]
    /\ UNCHANGED <<computed, value, getter_calls>>

\* if not self.computed:
get_test(t) ==
    /\ Step(t, "test")
    /\ threads' = [threads EXCEPT
                     ![t].pc = IF ~computed THEN "call" ELSE "return"]
    /\ UNCHANGED <<computed, value, getter_calls>>

\* self.getter(owner)
get_call(t) ==
    /\ Step(t, "call")
    /\ getter_calls' = getter_calls + 1
    /\ threads' = [threads EXCEPT
                     ![t].pc = "store",
                     ![t].result = Distance_weights_getter(config)]
    /\ UNCHANGED <<computed, value>>

\* self.value = ...
get_store(t) ==
    /\ Step(t, "store")
    /\ value' = threads[t].result
    /\ threads' = [threads EXCEPT ![t].pc = "flag"]
    /\ UNCHANGED <<computed, getter_calls>>

\* self.computed = True
get_flag(t) ==
    /\ Step(t, "flag")
    /\ computed' = TRUE
    /\ threads' = [threads EXCEPT ![t].pc = "return"]
    /\ UNCHANGED <<value, getter_calls>>

\* return self.value
get_return(t) ==
    /\ Step(t, "return")
    /\ threads' = [threads EXCEPT ![t].pc = "ready",
                                  ![t].returned = value]
    /\ UNCHANGED <<computed, value, getter_calls>>

NextLazy ==
    \/ \E t \in Threads : get_enter(t)
    \/ \E t \in Threads : get_test(t)
    \/ \E t \in Threads : get_call(t)
    \/ \E t \in Threads : get_store(t)
    \/ \E t \in Threads : get_flag(t)
    \/ \E t \in Threads : get_return(t)

SpecLazy == InitLazy /\ [][NextLazy]_vars

\* ------------------------------------------------------------------------
\* Releases that are built, copied and changed.

InitInfo ==
    /\ penalties = [d \in D |-> Distance_init]
    /\ config = DefaultWeights
    /\ last = "init"
    /\ raised = "none"
    /\ NoStringDist
    /\ NotComputed
    /\ heap = NoObjects
    /\ run = NoRun

\* The AlbumInfo objects of a run: a release and its copy, or two releases.
AlbumIds == {1, 2}
TrackIndices == 1 .. MaxTracks

\* The heap becomes h.
Becomes(h) ==
    /\ 1 .. Len(h.albums) \subseteq AlbumIds
    /\ Len(h.tracks) <= MaxTracks
    /\ heap' = h
    /\ UNCHANGED <<penalties, config, raised, sd, lazyVars, run>>

Albums == 1 .. Len(heap.albums)
TracksOf(a) == heap.lists[heap.albums[a].tracks]

\* AlbumInfo(tracks, album=album)
new_album(titles, album) ==
    /\ last' = "AlbumInfo"
    /\ Becomes(AlbumInfo_init(heap, titles, album))

\* a.copy()
copy(a) ==
    /\ a \in Albums
    /\ last' = "copy"
    /\ Becomes(AlbumInfo_copy(heap, a))

\* a.album = v
set_album(a, v) ==
    /\ a \in Albums
    /\ last' = "set_album"
    /\ Becomes([heap EXCEPT !.albums[a].album = v])

\* a.tracks[i].title = v
set_title(a, i, v) ==
    /\ a \in Albums
    /\ i \in 1 .. Len(TracksOf(a))
    /\ last' = "set_title"
    /\ Becomes([heap EXCEPT !.tracks[TracksOf(a)[i]].title = v])

\* a.tracks.append(TrackInfo(title=v))
append_track(a, v) ==
    /\ a \in Albums
    /\ last' = "append"
    /\ Becomes([heap EXCEPT
                   !.tracks = Append(@, [title |-> v]),
                   !.lists[heap.albums[a].tracks] =
                       Append(@, Len(heap.tracks) + 1)])

\* del a.tracks[i]
remove_track(a, i) ==
    /\ a \in Albums
    /\ i \in 1 .. Len(TracksOf(a))
    /\ last' = "remove"
    /\ Becomes([heap EXCEPT !.lists[heap.albums[a].tracks] = Without(@, i)])

NextInfo ==
    \/ \E titles \in {<<>>, <<"x">>, <<"x", "y">>}, album \in Titles :
          new_album(titles, album)
    \/ \E a \in AlbumIds : copy(a)
    \/ \E a \in AlbumIds, v \in Titles : set_album(a, v)
    \/ \E a \in AlbumIds, i \in TrackIndices, v \in Titles :
          set_title(a, i, v)
    \/ \E a \in AlbumIds, v \in Titles : append_track(a, v)
    \/ \E a \in AlbumIds, i \in TrackIndices : remove_track(a, i)

SpecInfo == InitInfo /\ [][NextInfo]_vars

\* ------------------------------------------------------------------------
\* One aggregation call, consumed to its end.

InitAggregation ==
    /\ penalties = [d \in D |-> Distance_init]
    /\ config = DefaultWeights
    /\ last = "init"
    /\ raised = "none"
    /\ NoStringDist
    /\ NotComputed
    /\ heap = NoObjects
    /\ run = NoRun

Searches == {"album_candidates", "item_candidates"}
IdLookups == {"albums_for_id", "tracks_for_id"}

\* The generator is resumed and becomes r.
Resume(r) ==
    /\ run' = r
    /\ raised' = r.error
    /\ UNCHANGED <<penalties, config, sd, lazyVars, heap>>

\* The caller calls album_candidates or item_candidates.
call_candidates(func, enabled, artist, album, va_likely, registered) ==
    /\ run.pc = "idle"
    /\ func = "item_candidates" => ~va_likely
    /\ last' = func
    /\ Resume([NoRun EXCEPT !.func = func, !.enabled = enabled,
                            !.artist = artist, !.album = album,
                            !.va_likely = va_likely,
                            !.registered = registered, !.pc = "search1"])

\* The caller calls albums_for_id or tracks_for_id.
call_for_id(func, registered) ==
    /\ run.pc = "idle"
    /\ last' = func
    /\ Resume([NoRun EXCEPT !.func = func, !.registered = registered,
                            !.pc = "lookup"])

\* The generator has nothing in hand and goes on to its next lookup.
Looks(funcs, pcs) ==
    /\ run.func \in funcs
    /\ run.pc \in pcs
    /\ run.buffer = <<>>
    /\ run.pc = "plugins" => run.plugin <= run.registered

\* The primary service is searched (or the search is skipped).
search(outcome) ==
    /\ Looks(Searches, {"search1", "search2"})
    /\ last' = "search"
    /\ Resume(IF run.func = "album_candidates"
              THEN album_candidates(run, outcome)
              ELSE item_candidates(run, outcome))

\* The next plugin is asked for candidates.
plugin_candidates(outcome) ==
    /\ Looks(Searches, {"plugins"})
    /\ last' = "plugin_candidates"
    /\ Resume(IF run.func = "album_candidates"
              THEN album_candidates(run, outcome)
              ELSE item_candidates(run, outcome))

\* A candidate of a search is announced and yielded.
notify_and_yield ==
    /\ run.func \in Searches
    /\ run.buffer # <<>>
    /\ last' = "yield"
    /\ Resume(notify_info_yielded(run))

\* The primary service is asked for the ID.
lookup(outcome) ==
    /\ Looks(IdLookups, {"lookup"})
    /\ last' = "lookup"
    /\ Resume(albums_for_id(run, outcome))

\* The next plugin is asked for the ID.
plugin_for_id(outcome) ==
    /\ Looks(IdLookups, {"plugins"})
    /\ last' = "plugin_for_id"
    /\ Resume(albums_for_id(run, outcome))

\* A match for the ID is yielded.
yield_match ==
    /\ run.func \in IdLookups
    /\ run.buffer # <<>>
    /\ last' = "yield"
    /\ Resume(yield_for_id(run))

NextAggregation ==
    \/ \E func \in Searches, enabled \in BOOLEAN, artist \in {"", "x"},
          album \in {"", "y"}, va_likely \in BOOLEAN,
          registered \in 0 .. MaxPlugins :
          call_candidates(func, enabled, artist, album, va_likely, registered)
    \/ \E func \in IdLookups, registered \in 0 .. MaxPlugins :
          call_for_id(func, registered)
    \/ \E outcome \in SearchOutcomes : search(outcome)
    \/ \E outcome \in PluginOutcomes : plugin_candidates(outcome)
    \/ notify_and_yield
    \/ \E outcome \in LookupOutcomes : lookup(outcome)
    \/ \E outcome \in PluginLookupOutcomes : plugin_for_id(outcome)
    \/ yield_match

SpecAggregation == InitAggregation /\ [][NextAggregation]_vars

\* ------------------------------------------------------------------------
\* Properties.

\* x is a float of the interval [0.0, 1.0].
InUnitInterval(x) == x[2] > 0 /\ 0 <= x[1] /\ x[1] <= x[2]

\* The list d holds for key, empty when d has no such key.
ListOf(pens, d, key) ==
    IF key \in DOMAIN pens[d] THEN pens[d][key] ELSE <<>>

\* C1: whatever add, add_equality, add_expr, add_number, add_priority,
\* add_ratio, add_string and update calls were made on accumulators that
\* started empty, every value in every key's list lies in [0.0, 1.0].
C1_PenaltiesInUnitInterval ==
    \A d \in D : \A key \in DOMAIN penalties[d] :
        \A i \in 1 .. Len(penalties[d][key]) :
            InUnitInterval(penalties[d][key][i])

\* An update has merged a list that holds a value strictly inside the
\* interval and the value 1.0.
C1_Witness ==
    /\ last = "update"
    /\ \E d \in D : \E key \in DOMAIN penalties[d] :
          /\ \E i \in 1 .. Len(penalties[d][key]) :
                penalties[d][key][i] = Rat(1, 3)
          /\ \E i \in 1 .. Len(penalties[d][key]) :
                penalties[d][key][i] = One

\* C2: add(key, v) with v outside [0.0, 1.0] raises ValueError and
\* update(x) with x not a Distance raises ValueError, and every call that
\* raises ValueError leaves all penalty mappings as they were: no key is
\* created and no value appended.
C2_RejectedCallChangesNothing ==
    [][ /\ last' = "add" =>
              \A d \in D, key \in CallKeys, dist \in AddDists :
                  (~InUnitInterval(dist) /\ add(d, key, dist))
                      => (raised' = "ValueError" /\ penalties' = penalties)
        /\ last' = "update" =>
              \A d \in D, x \in NonDistance :
                  update(d, x)
                      => (raised' = "ValueError" /\ penalties' = penalties)
        /\ raised' = "ValueError" => penalties' = penalties ]_vars

\* An add was rejected on an accumulator that holds penalties.
C2_Witness ==
    /\ last = "add"
    /\ raised = "ValueError"
    /\ \E d \in D : penalties[d] # Distance_init

\* What the weights, sums and counts of a dict amount to, key by key.
WeightedSum(p, w, key) ==
    IF key \in DOMAIN p THEN RMul(sum(p[key]), w[key]) ELSE Zero
WeightedCount(p, w, key) ==
    IF key \in DOMAIN p THEN RMul(Rat(Len(p[key]), 1), w[key]) ELSE Zero
Numerator(p, w) ==
    RAdd(WeightedSum(p, w, "album"),
         RAdd(WeightedSum(p, w, "media"), WeightedSum(p, w, "year")))
Denominator(p, w) ==
    RAdd(WeightedCount(p, w, "album"),
         RAdd(WeightedCount(p, w, "media"), WeightedCount(p, w, "year")))
\* Sum over keys of weighted sums, over sum over keys of weighted counts.
Quotient(p, w) ==
    IF Denominator(p, w) = Zero THEN Zero
    ELSE RDiv(Numerator(p, w), Denominator(p, w))
\* Every key of the dict has a weight.
Weighted(p) == DOMAIN p \subseteq DOMAIN Distance_weights

\* C3: in every state, total() of an accumulator whose keys all have
\* weights is the sum over keys of (sum of values times weight) divided
\* by the sum over keys of (number of values times weight), and 0.0 when
\* that denominator is 0, as it is for an accumulator without penalties.
C3_TotalIsWeightedQuotient ==
    \A d \in D :
        Weighted(penalties[d]) =>
            LET total == Distance_distance(penalties[d], Distance_weights)
                num == Numerator(penalties[d], Distance_weights)
                den == Denominator(penalties[d], Distance_weights)
            IN  /\ den # Zero => RMul(total, den) = num
                /\ den = Zero => total = Zero
                /\ penalties[d] = Distance_init => total = Zero

\* A read of two accumulators: one with keys of different weights and a
\* total strictly between 0 and 1, one whose only key has weight zero.
C3_Witness ==
    /\ last = "distance"
    /\ raised = "none"
    /\ LET p == penalties["d1"]
           q == penalties["d2"]
           w == Distance_weights
       IN  /\ DOMAIN p = {"album", "year"}
           /\ w["album"] # w["year"]
           /\ RLt(Zero, Distance_distance(p, w))
           /\ RLt(Distance_distance(p, w), One)
           /\ DOMAIN q = {"year"}
           /\ w["year"] = Zero
           /\ Distance_distance(q, w) = Zero

\* sum(s) for a list of floats given by index.
RECURSIVE SumOfItems(_, _)
SumOfItems(p, ks) ==
    IF ks = {} THEN Zero
    ELSE LET key == CHOOSE k \in ks : TRUE
         IN  RAdd(Distance_getitem(p, Distance_weights, key),
                  SumOfItems(p, ks \ {key}))

\* C4: per_key(key) is the key's weighted sum divided by the denominator
\* of total(), the weighted count over all keys, so that in every state
\* the per_key values of all keys present add up to total().
C4_PerKeySharesDenominator ==
    \A d \in D :
        Weighted(penalties[d]) =>
            LET p == penalties[d]
                w == Distance_weights
                den == Denominator(p, w)
            IN  /\ \A key \in DOMAIN p :
                      /\ den # Zero =>
                            RMul(Distance_getitem(p, w, key), den)
                                = WeightedSum(p, w, key)
                      /\ den = Zero => Distance_getitem(p, w, key) = Zero
                /\ SumOfItems(p, DOMAIN p) = Distance_distance(p, w)

\* An accumulator with two keys of different list lengths, both with a
\* non-zero share of a total below 1.
C4_Witness ==
    /\ last = "distance"
    /\ \E d \in D :
          LET p == penalties[d]
              w == Distance_weights
          IN  /\ Weighted(p)
              /\ \E k1, k2 \in DOMAIN p :
                    /\ k1 # k2
                    /\ Len(p[k1]) # Len(p[k2])
                    /\ Distance_getitem(p, w, k1) # Zero
                    /\ Distance_getitem(p, w, k2) # Zero
              /\ RLt(Distance_distance(p, w), One)

\* C5: in every state items() lists exactly the keys whose per-key value
\* is not zero, each once, in descending order of value, keys of equal
\* value in ascending order of their names.
C5_ItemsSorted ==
    \A d \in D :
        Weighted(penalties[d]) =>
            LET p == penalties[d]
                w == Distance_weights
                items == Distance_items(p, w)
            IN  /\ { items[i][1] : i \in 1 .. Len(items) }
                      = { key \in DOMAIN p : Denominator(p, w) # Zero
                                             /\ WeightedSum(p, w, key) # Zero }
                /\ \A i, j \in 1 .. Len(items) :
                      i # j => items[i][1] # items[j][1]
                /\ \A i \in 1 .. Len(items) :
                      RMul(items[i][2], Denominator(p, w))
                          = WeightedSum(p, w, items[i][1])
                /\ \A i \in 1 .. Len(items) - 1 :
                      \/ RLt(items[i + 1][2], items[i][2])
                      \/ /\ items[i + 1][2] = items[i][2]
                         /\ KeyRank[items[i][1]] < KeyRank[items[i + 1][1]]

\* Three keys of equal non-zero value, listed by name.
C5_Witness ==
    /\ last = "distance"
    /\ LET w == Distance_weights
           i1 == Distance_items(penalties["d1"], w)
       IN  /\ DOMAIN penalties["d1"] = {"album", "media", "year"}
           /\ Weighted(penalties["d1"])
           /\ Len(i1) = 3
           /\ i1[1][1] = "album" /\ i1[2][1] = "media" /\ i1[3][1] = "year"
           /\ i1[1][2] = i1[2][2] /\ i1[2][2] = i1[3][2]

\* n values 1.0.
Ones(n) == [i \in 1 .. n |-> One]

\* The accumulator a single add_number("year", a[1], a[2]) leaves.
AfterOneNumber(a) == "year" :> (IF a[1] = a[2] THEN <<Zero>>
                                ELSE Ones(Abs(a[1] - a[2])))

\* C6 as stated: with weight 1.0 for "year", total() after one add_number
\* on a fresh accumulator is strictly larger for the larger |n1 - n2|, as
\* for add_number("year", 2000, 2003) against add_number("year", 2000, 2001).
C6_TotalStrictlyMonotonic ==
    \A d1, d2 \in D, a, b \in NumberArgs :
        ( /\ Distance_weights["year"] = One
          /\ penalties[d1] = AfterOneNumber(a)
          /\ penalties[d2] = AfterOneNumber(b)
          /\ Abs(a[1] - a[2]) > Abs(b[1] - b[2]) )
        => RLt(Distance_distance(penalties[d2], Distance_weights),
               Distance_distance(penalties[d1], Distance_weights))

\* C6 as amended: with weight 1.0 for "year", total() after one add_number
\* on a fresh accumulator is 1.0 when the numbers differ, whatever their
\* difference, and 0.0 when they are equal; it never decreases with
\* |n1 - n2|, and it is the raw distance that equals |n1 - n2| and so grows
\* strictly with it.
C6_TotalIsZeroOrOne ==
    \A d1, d2 \in D, a, b \in NumberArgs :
        ( /\ Distance_weights["year"] = One
          /\ penalties[d1] = AfterOneNumber(a)
          /\ penalties[d2] = AfterOneNumber(b) )
        => LET w == Distance_weights
               total1 == Distance_distance(penalties[d1], w)
               total2 == Distance_distance(penalties[d2], w)
           IN  /\ total1 = IF a[1] # a[2] THEN One ELSE Zero
               /\ Distance_raw_distance(penalties[d1], w)
                     = Rat(Abs(a[1] - a[2]), 1)
               /\ Abs(a[1] - a[2]) > Abs(b[1] - b[2]) =>
                     /\ RLe(total2, total1)
                     /\ RLt(Distance_raw_distance(penalties[d2], w),
                            Distance_raw_distance(penalties[d1], w))

\* add_number("year", 2000, 2003) on one fresh accumulator and
\* add_number("year", 2000, 2001) on another, read with weight 1.0.
C6_Witness ==
    /\ last = "distance"
    /\ Distance_weights["year"] = One
    /\ penalties["d1"] = AfterOneNumber(<<2000, 2003>>)
    /\ penalties["d2"] = AfterOneNumber(<<2000, 2001>>)

\* C7: add_number(key, n1, n2) appends |n1 - n2| values 1.0 to the key's
\* list when the numbers differ and one value 0.0 when they are equal, and
\* changes no other key and no other accumulator, so the key's raw weighted
\* contribution grows by |n1 - n2| times the key's weight.
C7_AddNumberAppendsDifference ==
    [][ last' = "add_number" =>
          \A d \in D, key \in Keys, a \in NumberArgs :
              add_number(d, key, a[1], a[2], MaxNumberPenalties) =>
                  LET diff == IF a[1] > a[2] THEN a[1] - a[2] ELSE a[2] - a[1]
                      new == penalties'[d]
                      w == Distance_weights
                  IN  /\ raised' = "none"
                      /\ DOMAIN new = DOMAIN penalties[d] \cup {key}
                      /\ new[key] = ListOf(penalties, d, key)
                                      \o (IF diff # 0 THEN Ones(diff)
                                          ELSE <<Zero>>)
                      /\ \A k \in DOMAIN penalties[d] \ {key} :
                            new[k] = penalties[d][k]
                      /\ \A e \in D \ {d} : penalties'[e] = penalties[e]
                      /\ key \in DOMAIN w =>
                            WeightedSum(new, w, key)
                              = RAdd(WeightedSum(penalties[d], w, key),
                                     RMul(Rat(diff, 1), w[key])) ]_vars

\* A difference of 2 was added to a key that held a value, next to
\* another key.
C7_Witness ==
    /\ last = "add_number"
    /\ \E d \in D :
          /\ "album" \in DOMAIN penalties[d]
          /\ "year" \in DOMAIN penalties[d]
          /\ penalties[d]["year"] = <<Zero, One, One>>

\* Does the option match the value: a literal by equality, a compiled
\* pattern by its match().
OptionMatches(opt, val) ==
    \/ opt.kind = "literal" /\ opt.v = val
    \/ opt.kind = "Pattern" /\ val \in PatternMatches[opt.v]

\* The penalty of a value against options: the 0-based index of the first
\* matching option over the number of options, 1.0 without a match.
PriorityOf(val, options) ==
    LET opts == IF options.list THEN options.opts ELSE <<options.opts>>
        hits == { i \in 1 .. Len(opts) : OptionMatches(opts[i], val) }
    IN  IF hits = {} THEN One
        ELSE Rat((CHOOSE i \in hits : \A j \in hits : i <= j) - 1, Len(opts))

\* C8: add_priority(key, value, options) appends exactly one penalty,
\* i / len(options) for the 0-based index i of the first option that
\* matches value, which is 0.0 for the first option and below 1.0 on any
\* match, and 1.0 when no option matches or there are no options; "CD"
\* against ["CD", "Vinyl", "Digital"] gives 0.0 and "Cassette" against
\* ["CD", "Vinyl"] gives 1.0.
C8_AddPriorityAppendsRank ==
    [][ last' = "add_priority" =>
          \A d \in D, key \in CallKeys, a \in ValueArgs :
              add_priority(d, key, a[1], a[2]) =>
                  LET dist == PriorityOf(a[1], OptionArgs[a[2]])
                      new == penalties'[d]
                  IN  /\ raised' = "none"
                      /\ DOMAIN new = DOMAIN penalties[d] \cup {key}
                      /\ new[key] = ListOf(penalties, d, key) \o <<dist>>
                      /\ \A k \in DOMAIN penalties[d] \ {key} :
                            new[k] = penalties[d][k]
                      /\ \A e \in D \ {d} : penalties'[e] = penalties[e]
                      /\ dist # One =>
                            /\ \E i \in 1 .. Len(AsList(OptionArgs[a[2]])) :
                                  OptionMatches(AsList(OptionArgs[a[2]])[i],
                                                a[1])
                            /\ RLt(dist, One)
                      /\ (a[1] = "CD" /\ a[2] = 2) => dist = Zero
                      /\ (a[1] = "Cassette" /\ a[2] = 3) => dist = One
                      /\ a[2] = 1 => dist = One ]_vars

\* A value matched by the second and the third of three options got the
\* penalty 1/3, after a value matched by the first option got 0.0.
C8_Witness ==
    /\ last = "add_priority"
    /\ \E d \in D : \E key \in DOMAIN penalties[d] :
          penalties[d][key] = <<Zero, Rat(1, 3)>>

\* The effect of update(d, dist) on d: every list of dist appended, in its
\* order, to the list d held for the key.
Merged(d, dist) ==
    /\ raised' = "none"
    /\ DOMAIN penalties'[d] = DOMAIN penalties[d] \cup DOMAIN penalties[dist]
    /\ \A key \in DOMAIN penalties'[d] :
          penalties'[d][key]
              = ListOf(penalties, d, key) \o ListOf(penalties, dist, key)

\* C9 as stated: after A.update(B) every list of A is A's previous list
\* followed by B's list for the key, keys only A has keep their lists, and
\* B's penalty mapping is unchanged.
C9_UpdateLeavesOtherUnchanged ==
    [][ last' = "update" =>
          \A d \in D, dist \in D :
              update(d, dist) =>
                  /\ Merged(d, dist)
                  /\ penalties'[dist] = penalties[dist] ]_vars

\* C9 as amended: after A.update(B) every list of A is A's previous list
\* followed by B's previous list for the key and keys only A has keep
\* their lists; B's penalty mapping is unchanged when B is another object
\* than A, while A.update(A) doubles every list of A.
C9_UpdateAppendsOther ==
    [][ last' = "update" =>
          \A d \in D, dist \in D :
              update(d, dist) =>
                  /\ Merged(d, dist)
                  /\ \A e \in D \ {d} : penalties'[e] = penalties[e]
                  /\ dist = d =>
                        \A key \in DOMAIN penalties[d] :
                            penalties'[d][key]
                                = penalties[d][key] \o penalties[d][key] ]_vars

\* An update appended the one value of the other accumulator's key to a
\* different value of the same key.
C9_Witness ==
    /\ last = "update"
    /\ \E d, dist \in D : \E key \in DOMAIN penalties[d] :
          /\ d # dist
          /\ key \in DOMAIN penalties[dist]
          /\ Len(penalties[dist][key]) = 1
          /\ Len(penalties[d][key]) = 2
          /\ penalties[d][key][2] = penalties[dist][key][1]
          /\ penalties[d][key][1] # penalties[d][key][2]

\* C10 as stated: two distinct accumulators never compare equal, even
\* when their totals are equal.
C10_DistinctNeverEqual ==
    \A d1, d2 \in D :
        (d1 # d2 /\ Weighted(penalties[d1]) /\ Weighted(penalties[d2]))
            => ~Distance_eq(penalties[d1], Distance_weights,
                            [type |-> "Distance", pen |-> penalties[d2]])

\* Numbers an accumulator is compared with.
Floats == {Zero, Rat(1, 3), Rat(1, 2), One, NaN}

\* C10 as amended: an accumulator compares by its total(): it equals a
\* number exactly when its total() is that number, and two distinct
\* accumulators compare equal exactly when their totals are equal, as two
\* fresh accumulators do.
C10_EqualByTotal ==
    \A d1, d2 \in D :
        (d1 # d2 /\ Weighted(penalties[d1]) /\ Weighted(penalties[d2]))
            => LET w == Distance_weights
               IN  /\ Distance_eq(penalties[d1], w,
                                  [type |-> "Distance", pen |-> penalties[d2]])
                        <=> Quotient(penalties[d1], w) = Quotient(penalties[d2], w)
                   /\ \A x \in Floats :
                         Distance_eq(penalties[d1], w, [type |-> "float", v |-> x])
                            <=> (~IsNaN(x) /\ Quotient(penalties[d1], w) = x)
                   /\ ~Distance_eq(penalties[d1], w, [type |-> "object"])

\* Two accumulators with different penalties and the same total, strictly
\* between 0 and 1, were compared.
C10_Witness ==
    /\ last = "distance"
    /\ Weighted(penalties["d1"]) /\ Weighted(penalties["d2"])
    /\ penalties["d1"] # penalties["d2"]
    /\ LET w == Distance_weights
       IN  /\ Distance_eq(penalties["d1"], w,
                          [type |-> "Distance", pen |-> penalties["d2"]])
           /\ RLt(Zero, Distance_distance(penalties["d1"], w))
           /\ RLt(Distance_distance(penalties["d1"], w), One)

\* Entries of the history and of the log, by kind.
IsPrimary(q) == q.source = "primary"
IsPlugin(q) == q.source = "plugin"
IsSend(e) == e.kind = "send"
IsYield(e) == e.kind = "yield"

\* The records the sources of the history h contributed, in order.
RECURSIVE Contributed(_)
Contributed(h) ==
    IF h = <<>> THEN <<>> ELSE Head(h).cands \o Contributed(Tail(h))

\* The records the log announces, and those it yields, in order.
Announced(log) ==
    LET sends == SelectSeq(log, IsSend)
    IN  [i \in 1 .. Len(sends) |-> sends[i].info]
YieldedBy(log) ==
    LET yields == SelectSeq(log, IsYield)
    IN  [i \in 1 .. Len(yields) |-> yields[i].info]

\* Every search of the primary service was made and failed with the
\* ServiceError, and no plugin failed.
OnlyPrimaryFailed ==
    LET primary == SelectSeq(run.history, IsPrimary)
        plugin == SelectSeq(run.history, IsPlugin)
    IN  /\ run.func \in Searches
        /\ primary # <<>>
        /\ \A i \in 1 .. Len(primary) :
              primary[i].exc = "MusicBrainzAPIError"
        /\ \A i \in 1 .. Len(plugin) : plugin[i].exc = "none"

\* C11: in album_candidates and item_candidates, when the search of the
\* primary service fails with MusicBrainzAPIError and the registered plugins
\* return two candidates, no error reaches the caller, and the exhausted
\* generator has yielded exactly those two candidates and sent exactly two
\* events, one for each.
C11_PrimaryFailureIsSkipped ==
    OnlyPrimaryFailed =>
        /\ run.error = "none"
        /\ StopIteration(run)
             /\ Contributed(SelectSeq(run.history, IsPlugin)) = <<"p1", "p2">>
             => /\ YieldedBy(run.log) = <<"p1", "p2">>
                /\ SelectSeq(run.log, IsSend)
                     = << Sent(EventOf(run.func), "p1"),
                          Sent(EventOf(run.func), "p2") >>

\* album_candidates has made both searches of the primary service, both
\* failed, the one registered plugin returned two candidates, and the
\* generator is exhausted.
C11_Witness ==
    /\ OnlyPrimaryFailed
    /\ run.func = "album_candidates"
    /\ Len(SelectSeq(run.history, IsPrimary)) = 2
    /\ run.registered = 1
    /\ StopIteration(run)
    /\ YieldedBy(run.log) = <<"p1", "p2">>

\* C12: whichever source fails during its lookup, the primary service or a
\* plugin, no error leaves the aggregation call, and the exhausted
\* generator has yielded the candidates of every source that did not fail.
C12_EverySourceIsolated ==
    run.func # "none" =>
        /\ run.error = "none"
        /\ StopIteration(run) =>
              YieldedBy(run.log) = Contributed(run.history)

\* C13: in every aggregation run the log alternates: each yield of a
\* candidate comes right after one event sent for that candidate, each
\* event is for a record a source returned (never None), is the event of
\* the function, and is followed by the yield of its record as soon as the
\* generator goes on; once the generator is exhausted or has raised, as
\* many events were sent as candidates yielded.
C13_EventBeforeEveryYield ==
    LET log == run.log
    IN  /\ \A i \in 1 .. Len(log) :
              IsYield(log[i]) =>
                  /\ i > 1
                  /\ log[i - 1] = Sent(EventOf(run.func), log[i].info)
        /\ \A i \in 1 .. Len(log) :
              IsSend(log[i]) =>
                  /\ log[i].info # NoInfo
                  /\ \E j \in 1 .. Len(Contributed(run.history)) :
                        Contributed(run.history)[j] = log[i].info
                  /\ IF i < Len(log)
                     THEN log[i + 1] = Yielded(log[i].info)
                     ELSE run.buffer = << log[i].info >>
        /\ StopIteration(run) \/ run.pc = "raised" =>
              /\ Len(Announced(log)) = Len(YieldedBy(log))
              /\ YieldedBy(log) = Contributed(run.history)

\* albums_for_id has yielded the record of the primary service and the
\* match of one of two plugins, the other plugin having returned None.
C13_Witness ==
    /\ run.func = "albums_for_id"
    /\ StopIteration(run)
    /\ run.registered = 2
    /\ \E i \in 1 .. Len(run.history) :
          run.history[i].exc = "none" /\ run.history[i].cands = <<>>
    /\ run.log = << Sent("albuminfo_received", "m1"), Yielded("m1"),
                    Sent("albuminfo_received", "p1"), Yielded("p1") >>

\* C14: in albums_for_id and tracks_for_id, what has been yielded and what
\* is about to be is the record of the primary service, if it returned one,
\* followed by the plugins' matches in the plugins' order; when the primary
\* lookup returned None or failed with MusicBrainzAPIError these are the
\* plugins' matches alone, and that error never reaches the caller.
C14_PrimaryFirst ==
    run.func \in IdLookups =>
        /\ YieldedBy(run.log) \o run.buffer
             = Contributed(SelectSeq(run.history, IsPrimary))
               \o Contributed(SelectSeq(run.history, IsPlugin))
        /\ Len(SelectSeq(run.history, IsPrimary)) <= 1
        /\ \A i \in 1 .. Len(run.history) :
              IsPrimary(run.history[i]) => i = 1
        /\ run.error # "MusicBrainzAPIError"

\* tracks_for_id after a failed primary lookup, exhausted, having yielded
\* the matches of two plugins in their order.
C14_Witness ==
    /\ run.func = "tracks_for_id"
    /\ StopIteration(run)
    /\ run.history[1] = Queried("primary", Fails("MusicBrainzAPIError"), <<>>)
    /\ run.error = "none"
    /\ YieldedBy(run.log) = <<"p2", "p1">>

\* A call of string_dist on two strings has returned.
Compared == sd.result # "none" /\ ~sd.str1.isNone /\ ~sd.str2.isNone

\* C15: string_dist(a, b) is a float of [0.0, 1.0] for all optional
\* strings a and b, 0.0 when both are None and 1.0 when exactly one is, and
\* add_string(key, a, b) never raises the ValueError of add.
C15_StringDistInUnitInterval ==
    /\ sd.result # "none" =>
          /\ InUnitInterval(sd.result)
          /\ sd.str1.isNone /\ sd.str2.isNone => sd.result = Zero
          /\ sd.str1.isNone # sd.str2.isNone => sd.result = One
    /\ last = "add_string" =>
          /\ raised = "none"
          /\ "album" \in DOMAIN penalties["d1"]

\* Two strings at a distance strictly between 0.0 and 1.0, which add_string
\* has stored.
C15_Witness ==
    /\ Compared
    /\ RLt(Zero, sd.result) /\ RLt(sd.result, One)
    /\ last = "add_string"
    /\ penalties["d1"] = [key \in {"album"} |-> <<sd.result>>]

\* The string as the SD_END_WORDS and SD_REPLACE steps rewrite it.
Rewritten(s) == sd_replace(move_end_words(lower(s), 1))

\* C18 as claimed: for all strings a and b, string_dist(a, b) is never
\* greater than the basic normalized edit distance of a and b.
C18_NeverAboveBasic ==
    Compared => RLe(sd.result, string_dist_basic(sd.str1.s, sd.str2.s))

\* C18 as amended: for all strings a and b, string_dist(a, b) is never
\* greater than the basic normalized edit distance of a and b as rewritten
\* by the trailing-article and "&" steps, so the pattern deletions with
\* their weighted penalties only reduce or preserve the distance.
C18_NeverAboveRewrittenBasic ==
    Compared =>
        RLe(sd.result,
            string_dist_basic(Rewritten(sd.str1.s), Rewritten(sd.str2.s)))

\* A string the rewriting changed, and a pattern deletion that reduced the
\* distance.
C18_Witness ==
    /\ Compared
    /\ Rewritten(sd.str1.s) # lower(sd.str1.s)
    /\ RLt(sd.result,
           string_dist_basic(Rewritten(sd.str1.s), Rewritten(sd.str2.s)))

\* No weight of the table is negative.
NonNegative(w) == \A key \in DOMAIN w : RLe(Zero, w[key])

\* C19: under a table of non-negative weights that covers every key of an
\* accumulator, whatever was added or merged, total() lies in [0.0, 1.0]
\* and per_key(k) lies in [0.0, total()] for every key k of the accumulator.
C19_TotalAndPerKeyBounded ==
    \A d \in D :
        Weighted(penalties[d]) /\ NonNegative(Distance_weights) =>
            LET total == Distance_distance(penalties[d], Distance_weights)
            IN  /\ RLe(Zero, total) /\ RLe(total, One)
                /\ \A key \in DOMAIN penalties[d] :
                      LET per_key == Distance_getitem(penalties[d],
                                                      Distance_weights, key)
                      IN  RLe(Zero, per_key) /\ RLe(per_key, total)

\* An accumulator holding two keys, with a total strictly inside (0, 1) and
\* a per-key value strictly inside (0, total).
C19_Witness ==
    \E d \in D :
        /\ Weighted(penalties[d]) /\ NonNegative(Distance_weights)
        /\ \E key \in DOMAIN penalties[d] :
              LET total == Distance_distance(penalties[d], Distance_weights)
                  per_key == Distance_getitem(penalties[d], Distance_weights,
                                              key)
              IN  /\ RLt(Zero, per_key) /\ RLt(per_key, total)
                  /\ RLt(total, One)

\* C17: the getter of Distance._weights runs at most once, also when several
\* threads trigger the first access concurrently, and every access returns
\* the table that one run computed.
C17_GetterRunsOnce ==
    /\ getter_calls <= 1
    /\ \A t \in Threads :
          threads[t].returned # "none" =>
              /\ getter_calls = 1
              /\ threads[t].returned = Distance_weights_getter(config)

\* The set of the elements of the sequence s.
Range(s) == { s[i] : i \in 1 .. Len(s) }

\* Album a is changed: a field or a track title is set, or a track is added
\* to or removed from its list.
Changes(a) ==
    \/ \E v \in Titles : set_album(a, v)
    \/ \E i \in TrackIndices, v \in Titles : set_title(a, i, v)
    \/ \E v \in Titles : append_track(a, v)
    \/ \E i \in TrackIndices : remove_track(a, i)

\* C16: a.copy() yields a release that shows what a shows and whose track
\* list is a new list of new track objects; setting a field or a track
\* title of a release, or adding or removing tracks in its list, leaves
\* what every other release shows unchanged, be it the copy or the
\* original.
C16_CopyIsIndependent ==
    [][/\ \A a \in Albums :
            copy(a) =>
                LET b == Len(heap'.albums)
                    la == heap'.albums[a].tracks
                    lb == heap'.albums[b].tracks
                IN  /\ AlbumView(heap', b) = AlbumView(heap, a)
                    /\ AlbumView(heap', a) = AlbumView(heap, a)
                    /\ la # lb
                    /\ Range(heap'.lists[la]) \cap Range(heap'.lists[lb])
                          = {}
       /\ \A a \in Albums :
            Changes(a) =>
                \A b \in Albums \ {a} :
                    AlbumView(heap', b) = AlbumView(heap, b)]_vars

\* A copy whose track was given another title than the track of the
\* original has, and whose list has then gained a track the original lacks.
C16_Witness ==
    \E b \in Albums :
        LET a == heap.copy_of[b]
        IN  /\ a # 0
            /\ Len(TracksOf(a)) = 1
            /\ Len(TracksOf(b)) = 2
            /\ heap.tracks[TracksOf(a)[1]].title
                  # heap.tracks[TracksOf(b)[1]].title
            /\ last = "append"

====
